---------------------------- MODULE Spec2Model ----------------------------
(* engineering_to_tt.py: conversion of the Engineering iCalendar feed into *)
(* the Timetable XML import format.  Text is modelled as a sequence of     *)
(* characters, so that the summary pattern, the sort order and the         *)
(* concatenation fed to the digest are computed character by character.    *)
(* An ASCII character is the string of that character; the one character   *)
(* outside ASCII is named by its code point.  Patterns are matched as by   *)
(* Python 3, where the digit class of a text pattern holds every Unicode   *)
(* decimal digit (by Python 2 it holds the ASCII digits only).             *)
EXTENDS Integers, Sequences, FiniteSets, TLC

(***************************************************************************)
(* Text                                                                    *)
(***************************************************************************)

\* The printable ASCII characters in code-point order: 32 (space) .. 95, and
\* 97 .. 126 (the grave accent, 96, is left out).
AsciiLow ==
  << " ", "!", "\"", "#", "$", "%", "&", "'", "(", ")", "*", "+", ",", "-", ".", "/",
     "0", "1", "2", "3", "4", "5", "6", "7", "8", "9", ":", ";", "<", "=", ">", "?",
     "@", "A", "B", "C", "D", "E", "F", "G", "H", "I", "J", "K", "L", "M", "N", "O",
     "P", "Q", "R", "S", "T", "U", "V", "W", "X", "Y", "Z", "[", "\\", "]", "^", "_" >>
AsciiHigh ==
  << "a", "b", "c", "d", "e", "f", "g", "h", "i", "j", "k", "l", "m", "n", "o",
     "p", "q", "r", "s", "t", "u", "v", "w", "x", "y", "z", "{", "|", "}", "~" >>

\* ARABIC-INDIC DIGIT THREE, a decimal digit that is not ASCII.
ArabicIndicThree == "U+0663"

\* Code point of a character (line feed is 10).
Code(c) ==
  IF c = "\n" THEN 10
  ELSE IF c = ArabicIndicThree THEN 1635
  ELSE IF \E i \in 1..Len(AsciiLow) : AsciiLow[i] = c
       THEN 31 + (CHOOSE i \in 1..Len(AsciiLow) : AsciiLow[i] = c)
       ELSE 96 + (CHOOSE i \in 1..Len(AsciiHigh) : AsciiHigh[i] = c)

\* a < b on text: the first differing character decides, a proper prefix is smaller.
StrLt(a, b) ==
  \E i \in 1..Len(b) :
    /\ i <= Len(a) + 1
    /\ \A j \in 1..(i - 1) : a[j] = b[j]
    /\ (i <= Len(a) => Code(a[i]) < Code(b[i]))

\* The concatenation of a sequence of sequences.
RECURSIVE Chain(_)
Chain(seqs) ==
  IF seqs = <<>> THEN <<>>
  ELSE Chain(SubSeq(seqs, 1, Len(seqs) - 1)) \o seqs[Len(seqs)]

\* text.encode("utf-8"): one byte for a code point below 128, two bytes for
\* one below 2048.
utf8_bytes(code) ==
  IF code < 128 THEN <<code>>
  ELSE <<192 + (code \div 64), 128 + (code % 64)>>
encode_utf8(s) == Chain([i \in 1..Len(s) |-> utf8_bytes(Code(s[i]))])

\* The character classes of the summary pattern.
AsciiDigit == {"0", "1", "2", "3", "4", "5", "6", "7", "8", "9"}
Digit == AsciiDigit \cup {ArabicIndicThree}
Upper == {"A", "B", "C", "D", "E", "F", "G", "H", "I", "J", "K", "L", "M",
          "N", "O", "P", "Q", "R", "S", "T", "U", "V", "W", "X", "Y", "Z"}
PaperChar == Upper \cup AsciiDigit
\* A variant of the type class without the plus sign.
TypeChar_letters == Upper
TypeChar == Upper \cup {"+"}
Dot(c) == c # "\n"

(***************************************************************************)
(* EngineeringEvent.ICAL_SUMMARY_PATTERN: one digit, one or more of A-Z0-9, *)
(* a slash, one or more characters, digits in square brackets, one of A-Z+, *)
(* a space, any characters, and any characters in round brackets at the end.*)
(***************************************************************************)

\* Position of the last character that the end anchor lets the pattern consume: the end
\* of the text, or just before one trailing line feed.
PatternEnds(s) ==
  {Len(s)} \cup (IF Len(s) > 0 /\ s[Len(s)] = "\n" THEN {Len(s) - 1} ELSE {})

\* End of group 2: the run of [A-Z0-9] from position 2, which "/" must follow.
PaperEnd(s) ==
  LET run == {a \in 2..Len(s) : \A j \in 2..a : s[j] \in PaperChar}
  IN  IF run = {} THEN 0 ELSE CHOOSE a \in run : \A x \in run : x <= a

\* End of group 4 given the position of "[": the run of digits, which "]" must follow.
WeekEnd(s, open) ==
  LET run == {c \in (open + 1)..Len(s) : \A j \in (open + 1)..c : s[j] \in Digit}
  IN  IF run = {} THEN 0 ELSE CHOOSE c \in run : \A x \in run : x <= c

\* <<b, c, d, e>> is a way to match after a paper code that ends at a: group 3
\* ends at b, group 4 at c, group 6 at d, and the closing bracket is at e.
PatternSplitsAfter(s, a) ==
  {t \in ((a + 2)..Len(s)) \X {0} \X (1..Len(s)) \X PatternEnds(s) :
     \E c \in {WeekEnd(s, t[1] + 1)} :
       /\ \A j \in (a + 2)..t[1] : Dot(s[j])
       /\ t[1] + 1 <= Len(s) /\ s[t[1] + 1] = "["
       /\ c # 0
       /\ c + 3 <= Len(s)
       /\ s[c + 1] = "]"
       /\ s[c + 2] \in TypeChar
       /\ s[c + 3] = " "
       /\ t[3] >= c + 3 /\ t[3] + 1 < t[4]
       /\ \A j \in (c + 4)..t[3] : Dot(s[j])
       /\ s[t[3] + 1] = "("
       /\ \A j \in (t[3] + 2)..(t[4] - 1) : Dot(s[j])
       /\ s[t[4]] = ")"}

\* The ways to match the whole pattern.
PatternSplits(s, a) ==
  IF Len(s) = 0 \/ a = 0 \/ a + 1 > Len(s) THEN {}
  ELSE IF s[1] \notin Digit \/ s[a + 1] # "/" THEN {}
  ELSE PatternSplitsAfter(s, a)

\* Every quantifier of the pattern is greedy: the match found is the one with
\* the longest group 3, then the longest group 6, then the longest group 7.
SplitBefore(t, u) ==
  \/ t[1] < u[1]
  \/ t[1] = u[1] /\ t[3] < u[3]
  \/ t[1] = u[1] /\ t[3] = u[3] /\ t[4] < u[4]
FirstSplit(splits) ==
  CHOOSE x \in splits : \A y \in splits : y = x \/ SplitBefore(y, x)

\* A variant of the groups in which group 6 loses the space before the bracket.
PatternGroups_trimmed(s, a, c, t) ==
  << SubSeq(s, 1, 1),
     SubSeq(s, 2, a),
     SubSeq(s, a + 2, t[1]),
     SubSeq(s, t[1] + 2, c),
     SubSeq(s, c + 2, c + 2),
     IF t[3] >= c + 4 /\ s[t[3]] = " "
     THEN SubSeq(s, c + 4, t[3] - 1) ELSE SubSeq(s, c + 4, t[3]),
     SubSeq(s, t[3] + 2, t[4] - 1) >>

\* The seven groups of a way to match.
PatternGroups(s, a, c, t) ==
  << SubSeq(s, 1, 1),
     SubSeq(s, 2, a),
     SubSeq(s, a + 2, t[1]),
     SubSeq(s, t[1] + 2, c),
     SubSeq(s, c + 2, c + 2),
     SubSeq(s, c + 4, t[3]),
     SubSeq(s, t[3] + 2, t[4] - 1) >>
MatchOf(s, a, t) ==
  [match |-> TRUE, group |-> PatternGroups(s, a, WeekEnd(s, t[1] + 1), t)]
MatchAmong(s, a, splits) ==
  IF splits = {} THEN [match |-> FALSE] ELSE MatchOf(s, a, FirstSplit(splits))
MatchAfter(s, a) == MatchAmong(s, a, PatternSplits(s, a))

\* ICAL_SUMMARY_PATTERN.match(summary): no match, or the seven groups.
ICAL_SUMMARY_PATTERN_match(s) == MatchAfter(s, PaperEnd(s))

(***************************************************************************)
(* Outcomes of a call: a returned value or a raised exception              *)
(***************************************************************************)
Return(v) == [raised |-> FALSE, value |-> v]
Raise(exc, msg) == [raised |-> TRUE, exc |-> exc, msg |-> msg]

(***************************************************************************)
(* Timestamps.  A datetime is a record of date, time and utcoffset: the    *)
(* day of the year 2024 (1 is 1 January), the minute of that day, and the  *)
(* offset of its zone from UTC in minutes.  Europe/London is at UTC+1 from *)
(* 31 March 01:00 UTC to 27 October 01:00 UTC and at UTC+0 otherwise.      *)
(***************************************************************************)
MinutesPerDay == 24 * 60

\* A time of day in minutes.
HHMM(hour, minute) == hour * 60 + minute

\* The instant of a datetime, in minutes of UTC.
Instant(dt) == dt.date * MinutesPerDay + dt.time - dt.utcoffset

\* utcoffset of Europe/London at an instant of 2024.
BSTStarts == 91 * MinutesPerDay + HHMM(1, 0)
BSTEnds == 301 * MinutesPerDay + HHMM(1, 0)
LondonOffset(instant) ==
  IF BSTStarts <= instant /\ instant < BSTEnds THEN HHMM(1, 0) ELSE 0

\* The datetime of an instant on a clock at the given offset.
AtOffset(instant, utcoffset) ==
  [date |-> (instant + utcoffset) \div MinutesPerDay,
   time |-> (instant + utcoffset) % MinutesPerDay,
   utcoffset |-> utcoffset]

\* dt.astimezone(TIMETABLE_TIMEZONE): the same instant on the London clock.
astimezone(dt) == AtOffset(Instant(dt), LondonOffset(Instant(dt)))

\* datetime < datetime of two aware datetimes: the earlier instant.
DatetimeLt(a, b) == Instant(a) < Instant(b)

(***************************************************************************)
(* Substitutor / NullSubstitutor                                           *)
(***************************************************************************)

\* The key of the global section of a substitution table.
ALL == <<"_", "_", "a", "l", "l", "_", "_">>

\* Substitutor.lookup(section, value_type, value) over self.substitutions.
\* A variant of the lookup that asks the global section first.
Substitutor_lookup_global_first(substitutions, section, value_type, value) ==
  IF /\ ALL \in DOMAIN substitutions
     /\ value_type \in DOMAIN substitutions[ALL]
     /\ value \in DOMAIN substitutions[ALL][value_type]
  THEN substitutions[ALL][value_type][value]
  ELSE IF /\ section \in DOMAIN substitutions
          /\ value_type \in DOMAIN substitutions[section]
          /\ value \in DOMAIN substitutions[section][value_type]
       THEN substitutions[section][value_type][value]
       ELSE value

RECURSIVE Substitutor_lookup(_, _, _, _)
Substitutor_lookup(substitutions, section, value_type, value) ==
  IF /\ section \in DOMAIN substitutions
     /\ value_type \in DOMAIN substitutions[section]
     /\ value \in DOMAIN substitutions[section][value_type]
  THEN substitutions[section][value_type][value]
  ELSE IF section # ALL
       THEN Substitutor_lookup(substitutions, ALL, value_type, value)
       ELSE value

\* NullSubstitutor.lookup(section, value_type, value).
NullSubstitutor_lookup(section, value_type, value) == value

\* The two substitutor objects main can build.
Substitutor(substitutions) == [cls |-> "Substitutor", substitutions |-> substitutions]
NullSubstitutor == [cls |-> "NullSubstitutor"]

\* substitutor.lookup(...), dispatched on the class of the object.
lookup(substitutor, section, value_type, value) ==
  IF substitutor.cls = "NullSubstitutor"
  THEN NullSubstitutor_lookup(section, value_type, value)
  ELSE Substitutor_lookup(substitutor.substitutions, section, value_type, value)

(***************************************************************************)
(* EngineeringEvent                                                        *)
(***************************************************************************)

\* EngineeringEvent.__init__: the nine attributes (the zone assertions hold of
\* every datetime astimezone returns).
EngineeringEvent(part, paper, name, event_type, staff_name, location, start, end, uid) ==
  [part |-> part, paper |-> paper, name |-> name, event_type |-> event_type,
   staff_name |-> staff_name, location |-> location,
   start |-> start, end |-> end, uid |-> uid]

\* A variant that looks paper and type up under the part as substituted.
with_substitutions_new_part(self, substitutor) ==
  LET part == lookup(substitutor, self.part, "parts", self.part)
  IN  EngineeringEvent(
        part,
        lookup(substitutor, part, "papers", self.paper),
        self.name,
        lookup(substitutor, part, "event_types", self.event_type),
        self.staff_name,
        self.location,
        self.start,
        self.end,
        self.uid)

\* EngineeringEvent.with_substitutions(substitutor).
with_substitutions(self, substitutor) ==
  LET part == self.part
  IN  EngineeringEvent(
        lookup(substitutor, part, "parts", part),
        lookup(substitutor, part, "papers", self.paper),
        self.name,
        lookup(substitutor, part, "event_types", self.event_type),
        self.staff_name,
        self.location,
        self.start,
        self.end,
        self.uid)

\* EngineeringEvent.from_ical_event(ical_event), from the match of the summary
\* on: the checks for DTSTART and DTEND, and the event of the groups.
from_ical_event_matched(ical_event, m) ==
  IF ~m.match
  THEN Raise("EventParseException", "SUMMARY did not match expected format")
  ELSE IF "DTSTART" \notin DOMAIN ical_event
  THEN Raise("EventParseException", "Event has no DTSTART")
  ELSE IF "DTEND" \notin DOMAIN ical_event
  THEN Raise("EventParseException", "Event has no DTEND")
  ELSE IF "UID" \notin DOMAIN ical_event
  THEN Raise("KeyError", "UID")
  ELSE Return(EngineeringEvent(
         m.group[1],
         m.group[2],
         m.group[3],
         m.group[5],
         m.group[6],
         m.group[7],
         astimezone(ical_event.DTSTART),
         astimezone(ical_event.DTEND),
         ical_event.UID))

\* EngineeringEvent.from_ical_event(ical_event); ical_event is a record holding
\* some of SUMMARY, DTSTART, DTEND, UID.
from_ical_event(ical_event) ==
  IF "SUMMARY" \notin DOMAIN ical_event
  THEN Raise("EventParseException", "Event has no SUMMARY")
  ELSE from_ical_event_matched(ical_event, ICAL_SUMMARY_PATTERN_match(ical_event.SUMMARY))

\* .with_substitutions(substitutor) on what from_ical_event returned.
then_with_substitutions(r, substitutor) ==
  IF r.raised THEN r ELSE Return(with_substitutions(r.value, substitutor))

\* parse_engineering_event(ical_event, substitutor).
parse_engineering_event(ical_event, substitutor) ==
  then_with_substitutions(from_ical_event(ical_event), substitutor)

(***************************************************************************)
(* Excludor / NullExcludor                                                 *)
(***************************************************************************)

\* Values as Python compares them with ==: text, None, a datetime, or a
\* class attribute of EngineeringEvent; values of different kinds differ.
PyText(s) == [text |-> s]
PyNone == [none |-> TRUE]
PyDatetime(dt) == [datetime |-> dt]
PyAttribute(name) == [attribute |-> name]

TextAttributes == {"part", "paper", "name", "event_type", "staff_name", "location", "uid"}
DatetimeAttributes == {"start", "end"}

\* The attributes the class defines and those every object has, whose values
\* (patterns, methods, classes, the dictionary of the nine attributes) equal
\* no value of a JSON document.
ClassAttributes ==
  {"ICAL_SUMMARY_PATTERN", "with_substitutions", "from_ical_event", "__init__",
   "__class__", "__dict__", "__delattr__", "__dir__", "__eq__", "__format__",
   "__ge__", "__getattribute__", "__getstate__", "__gt__", "__hash__",
   "__init_subclass__", "__le__", "__lt__", "__ne__", "__new__", "__reduce__",
   "__reduce_ex__", "__repr__", "__setattr__", "__sizeof__", "__str__",
   "__subclasshook__"}

\* The attributes every object of the class has with the value None.
NoneAttributes == {"__doc__", "__weakref__"}

\* EngineeringEvent.__module__, the module being the one the console script
\* imports.
ModuleName ==
  <<"e", "n", "g", "i", "n", "e", "e", "r", "i", "n", "g", "_", "t", "o", "_", "t", "t">>

\* getattr(event, exclusion_key, None).
getattr(event, key) ==
  IF key \in TextAttributes THEN PyText(event[key])
  ELSE IF key \in DatetimeAttributes THEN PyDatetime(event[key])
  ELSE IF key = "__module__" THEN PyText(ModuleName)
  ELSE IF key \in ClassAttributes THEN PyAttribute(key)
  ELSE IF key \in NoneAttributes THEN PyNone
  ELSE PyNone

\* A variant in which one matching key is enough for a rule with keys.
ExclusionMatches_any(exclusion, event) ==
  \/ DOMAIN exclusion = {}
  \/ \E exclusion_key \in DOMAIN exclusion :
       getattr(event, exclusion_key) = exclusion[exclusion_key]

\* all(getattr(event, key, None) == exclusion[key] for key in exclusion).
ExclusionMatches(exclusion, event) ==
  \A exclusion_key \in DOMAIN exclusion :
    getattr(event, exclusion_key) = exclusion[exclusion_key]

\* Excludor.is_excluded(event) over self.exclusions, a list of rules.
Excludor_is_excluded(exclusions, event) ==
  \E i \in 1..Len(exclusions) : ExclusionMatches(exclusions[i], event)

\* NullExcludor.is_excluded(event).
NullExcludor_is_excluded(event) == FALSE

Excludor(exclusions) == [cls |-> "Excludor", exclusions |-> exclusions]
NullExcludor == [cls |-> "NullExcludor"]

\* excludor.is_excluded(event), dispatched on the class of the object.
is_excluded(excludor, event) ==
  IF excludor.cls = "NullExcludor"
  THEN NullExcludor_is_excluded(event)
  ELSE Excludor_is_excluded(excludor.exclusions, event)

(***************************************************************************)
(* Timetable XML                                                           *)
(***************************************************************************)

\* EXTERNAL_ID_SEED, byte by byte.
EXTERNAL_ID_SEED ==
  <<7, 184, 183, 188, 241, 241, 252, 6, 59, 194, 27, 67, 60, 44, 20, 76>>

\* hashlib.md5 fed the bytes, then hexdigest(): the digest is taken as
\* collision-free, so it is represented by the bytes it was fed.
md5_hexdigest(bytes) == [md5 |-> bytes]

\* external_id(tripos, part, paper, series).
external_id(tripos, part, paper, series) ==
  md5_hexdigest(EXTERNAL_ID_SEED \o encode_utf8(tripos \o part \o paper \o series))

\* event_sort_key(event).
event_sort_key(event) == <<event.part, event.paper, event.name, event.start>>

\* Tuple comparison of two sort keys: the first differing component decides.
SortKeyLt(k, l) ==
  \/ StrLt(k[1], l[1])
  \/ k[1] = l[1] /\ StrLt(k[2], l[2])
  \/ k[1] = l[1] /\ k[2] = l[2] /\ StrLt(k[3], l[3])
  \/ k[1] = l[1] /\ k[2] = l[2] /\ k[3] = l[3] /\ DatetimeLt(k[4], l[4])

\* A variant that leaves the events in the order given.
sorted_as_given(events) == events

\* sorted(events, key=event_sort_key): ascending and stable, an event goes
\* after every earlier event whose key is not greater than its own.
RECURSIVE sorted(_)
sorted(events) ==
  IF events = <<>> THEN <<>>
  ELSE
    LET front == sorted(SubSeq(events, 1, Len(events) - 1))
        event == events[Len(events)]
        n == Cardinality({i \in 1..Len(front) :
               ~SortKeyLt(event_sort_key(event), event_sort_key(front[i]))})
    IN  SubSeq(front, 1, n) \o <<event>> \o SubSeq(front, n + 1, Len(front))

\* itertools.groupby over a sequence of [key, item]: one [key, group] for each
\* maximal run of consecutive items with equal keys.
RECURSIVE groupby(_)
groupby(keyed) ==
  IF keyed = <<>> THEN <<>>
  ELSE
    LET front == groupby(SubSeq(keyed, 1, Len(keyed) - 1))
        last == keyed[Len(keyed)]
    IN  IF front # <<>> /\ front[Len(front)].key = last.key
        THEN [front EXCEPT ![Len(front)].group = Append(@, last.item)]
        ELSE Append(front, [key |-> last.key, group |-> <<last.item>>])

\* The children built by a generator: the first exception raised while it is
\* consumed propagates, otherwise the built elements in order.
Collect(outcomes) ==
  IF \E i \in 1..Len(outcomes) : outcomes[i].raised
  THEN outcomes[CHOOSE i \in 1..Len(outcomes) :
                  /\ outcomes[i].raised
                  /\ \A j \in 1..(i - 1) : ~outcomes[j].raised]
  ELSE Return([i \in 1..Len(outcomes) |-> outcomes[i].value])

\* The days of 2024 before each month.
DaysBefore == <<0, 31, 60, 91, 121, 152, 182, 213, 244, 274, 305, 335>>
MonthOf(date) ==
  CHOOSE m \in 1..12 :
    DaysBefore[m] < date /\ (m = 12 \/ date <= DaysBefore[m + 1])

\* Two decimal digits.
TwoDigits(n) == <<AsciiLow[17 + (n \div 10)], AsciiLow[17 + (n % 10)]>>

\* start.strftime("%Y-%m-%d") and strftime("%H:%M:%S") of a datetime of 2024:
\* the date and the time of day on the clock of its zone.
strftime_date(dt) ==
  <<"2", "0", "2", "4", "-">> \o TwoDigits(MonthOf(dt.date)) \o <<"-">>
    \o TwoDigits(dt.date - DaysBefore[MonthOf(dt.date)])
strftime_time(dt) ==
  TwoDigits(dt.time \div 60) \o <<":">> \o TwoDigits(dt.time % 60) \o <<":", "0", "0">>

\* A variant that writes the start time as the end time.
build_event_xml_end_as_start(event) ==
  IF event.start.date # event.end.date
  THEN Raise("AssertionError", "The API assumes events start and finish on the same day")
  ELSE Return([tag |-> "event",
               uniqueid |-> event.uid,
               name |-> event.name,
               location |-> event.location,
               lecturer |-> event.staff_name,
               date |-> strftime_date(event.start),
               start |-> strftime_time(event.start),
               end |-> strftime_time(event.start),
               type |-> event.event_type])

\* build_event_xml(event).
build_event_xml(event) ==
  IF event.start.date # event.end.date
  THEN Raise("AssertionError", "The API assumes events start and finish on the same day")
  ELSE Return([tag |-> "event",
               uniqueid |-> event.uid,
               name |-> event.name,
               location |-> event.location,
               lecturer |-> event.staff_name,
               date |-> strftime_date(event.start),
               start |-> strftime_time(event.start),
               end |-> strftime_time(event.end),
               type |-> event.event_type])

\* build_series_xml(tripos, part, paper, series, events).
build_series_xml(tripos, part, paper, series, events) ==
  LET children == Collect([i \in 1..Len(events) |-> build_event_xml(events[i])])
  IN  IF children.raised THEN children
      ELSE Return([tag |-> "series",
                   uniqueid |-> external_id(tripos, part, paper, series),
                   name |-> series,
                   events |-> children.value])

\* build_paper_xml(tripos, part, paper, events).
build_paper_xml(tripos, part, paper, events) ==
  LET events_by_series ==
        groupby([i \in 1..Len(events) |-> [key |-> events[i].name, item |-> events[i]]])
      children ==
        Collect([i \in 1..Len(events_by_series) |->
                   build_series_xml(tripos, part, paper,
                                    events_by_series[i].key, events_by_series[i].group)])
  IN  IF children.raised THEN children
      ELSE Return([tag |-> "module",
                   path |-> [tripos |-> tripos, part |-> part],
                   name |-> paper,
                   series |-> children.value])

\* A variant that groups the events of a part by series name.
build_part_xml_by_name(tripos, part, events) ==
  LET events_by_paper ==
        groupby([i \in 1..Len(events) |-> [key |-> events[i].name, item |-> events[i]]])
  IN  Collect([i \in 1..Len(events_by_paper) |->
                 build_paper_xml(tripos, part,
                                 events_by_paper[i].group[1].paper,
                                 events_by_paper[i].group)])

\* build_part_xml(tripos, part, events): the modules of one part.
build_part_xml(tripos, part, events) ==
  LET events_by_paper ==
        groupby([i \in 1..Len(events) |-> [key |-> events[i].paper, item |-> events[i]]])
  IN  Collect([i \in 1..Len(events_by_paper) |->
                 build_paper_xml(tripos, part,
                                 events_by_paper[i].key, events_by_paper[i].group)])

\* A variant without the assertion that there are events.
build_timetable_xml_unasserted(tripos_name, events) ==
  LET ordered == sorted(events)
      events_by_part ==
        groupby([i \in 1..Len(ordered) |-> [key |-> ordered[i].part, item |-> ordered[i]]])
      parts ==
        Collect([i \in 1..Len(events_by_part) |->
                   build_part_xml(tripos_name,
                                  events_by_part[i].key, events_by_part[i].group)])
  IN  IF parts.raised THEN parts
      ELSE Return([tag |-> "moduleList", modules |-> Chain(parts.value)])

\* build_timetable_xml(tripos_name, events).
build_timetable_xml(tripos_name, events) ==
  LET ordered == sorted(events)
      events_by_part ==
        groupby([i \in 1..Len(ordered) |-> [key |-> ordered[i].part, item |-> ordered[i]]])
      parts ==
        Collect([i \in 1..Len(events_by_part) |->
                   build_part_xml(tripos_name,
                                  events_by_part[i].key, events_by_part[i].group)])
  IN  IF ordered = <<>> THEN Raise("AssertionError", "")
      ELSE IF parts.raised THEN parts
      ELSE Return([tag |-> "moduleList", modules |-> Chain(parts.value)])

(***************************************************************************)
(* The substitution and exclusion files.  What json.load makes of a file   *)
(* is a Python value: a dict, a list, text or None; a file that is not     *)
(* JSON is kept as its text, with the message of the decoder.              *)
(***************************************************************************)
PyDict(members) == [dict |-> members]
PyList(items) == [list |-> items]

\* isinstance(value, dict).
IsDict(value) == "dict" \in DOMAIN value

\* bool(value) of an option of docopt: None and the empty text are false.
Truthy(value) == value # PyNone /\ value # PyText(<<>>)

\* json.load(f): the value of the document, or ValueError.
json_load(f) ==
  IF "notjson" \in DOMAIN f THEN Raise("ValueError", f.error) ELSE Return(f)

\* Substitutor.__init__ as from_json calls it: substitutions.get exists on a
\* dict only.
type_name(value) ==
  IF "list" \in DOMAIN value THEN "list"
  ELSE IF "text" \in DOMAIN value THEN "str"
  ELSE IF "none" \in DOMAIN value THEN "NoneType"
  ELSE "dict"
Substitutor_init(substitutions) ==
  IF IsDict(substitutions)
  THEN Return(Substitutor(substitutions.dict))
  ELSE Raise("AttributeError",
             "'" \o type_name(substitutions) \o "' object has no attribute 'get'")

\* Substitutor.from_json(json_object).
Substitutor_from_json(json_object) ==
  IF ~IsDict(json_object)
  THEN Raise("SubstitutionFormatException", "Top level value was not an object.")
  ELSE IF "substitutions" \notin DOMAIN json_object.dict
  THEN Raise("SubstitutionFormatException",
             "Top level object has no \"substitutions\" key.")
  ELSE Substitutor_init(json_object.dict["substitutions"])

\* Substitutor.from_json_file(filename), f being the file of that name.
Substitutor_from_json_file(f) ==
  IF json_load(f).raised
  THEN Raise("SubstitutionFormatException",
             "Unable to parse substitution file as JSON: " \o json_load(f).msg)
  ELSE Substitutor_from_json(json_load(f).value)

\* Excludor.from_json(json_object).
Excludor_from_json(json_object) ==
  IF ~IsDict(json_object)
  THEN Raise("ExcluderFormatException", "Top level value was not an object.")
  ELSE IF "exclusions" \notin DOMAIN json_object.dict
  THEN Raise("ExcluderFormatException",
             "Top level object has no \"exclusions\" key.")
  ELSE Return(Excludor(json_object.dict["exclusions"].list))

\* Excludor.from_json_file(filename), f being the file of that name.
Excludor_from_json_file(f) ==
  IF json_load(f).raised
  THEN Raise("ExcluderFormatException",
             "Unable to parse substitution file as JSON: " \o json_load(f).msg)
  ELSE Excludor_from_json(json_load(f).value)

\* main: args["-t"] or "engineering".
engineering == <<"e", "n", "g", "i", "n", "e", "e", "r", "i", "n", "g">>
main_tripos_name(option) == IF Truthy(option) THEN option.text ELSE engineering

(***************************************************************************)
(* State                                                                   *)
(***************************************************************************)
VARIABLES
  call,          \* a function of the module under call, with its arguments
  ret,           \* what the call returned or raised, Pending before that
  args,          \* main: the options and file names docopt returned
  tripos_name,   \* main: the tripos name (option -t)
  substitutor,   \* main: the Substitutor or NullSubstitutor
  excludor,      \* main: the Excludor or NullExcludor
  ical_files,    \* main: the records read from each <ical_file> opened so far
  pc,            \* main: where the run is
  file_no,       \* main: the file being read
  rec_no,        \* main: the record of that file being parsed
  file_events,   \* main: events parse_engineering_ical_string has built
  event_no,      \* main: the event of file_events the generator is at
  events,        \* main: the events that passed the excludor so far
  xml,           \* main: the tree build_timetable_xml returned
  stdout,        \* main: the document written
  raised         \* main: the exception that ended the run

vars == <<call, ret, args, tripos_name, substitutor, excludor, ical_files, pc,
          file_no, rec_no, file_events, event_no, events, xml, stdout, raised>>

mainVars == <<args, tripos_name, substitutor, excludor, ical_files, pc,
              file_no, rec_no, file_events, event_no, events, xml, stdout, raised>>

Pending == [pending |-> TRUE]
NoCall == [fn |-> "none"]
Nothing == [nothing |-> TRUE]

\* main is not running: the state of the module while one function is called.
MainIdle ==
  /\ args = Nothing
  /\ tripos_name = <<>>
  /\ substitutor = NullSubstitutor
  /\ excludor = NullExcludor
  /\ ical_files = <<>>
  /\ pc = "idle"
  /\ file_no = 0
  /\ rec_no = 0
  /\ file_events = <<>>
  /\ event_no = 0
  /\ events = <<>>
  /\ xml = Nothing
  /\ stdout = Nothing
  /\ raised = Nothing

(***************************************************************************)
(* Inputs                                                                  *)
(***************************************************************************)
MaxTypeLen == 2
MaxWeekLen == 2
MaxEvents == 3
MaxFiles == 2
MaxRecords == 2

\* All sequences over S of the lengths in lens.
SeqsOf(S, lens) == UNION {[1..n -> S] : n \in lens}

Example_Lecture ==
  <<"E", "x", "a", "m", "p", "l", "e", " ", "L", "e", "c", "t", "u", "r", "e">>
Dr_Smith == <<"D", "r", " ", "S", "m", "i", "t", "h">>
LR1 == <<"L", "R", "1">>

\* The pieces summaries are put together from: well-formed ones and ones
\* that break the pattern at each place.
PartTexts == {<<"1">>, <<"A">>}
PaperTexts == {<<"C", "W">>, <<"c">>}
NameTexts == {Example_Lecture, <<"A", "[", "1", "]", "B">>, <<"X", "\n">>, <<>>}
WeekTexts == SeqsOf({"3"}, 0..MaxWeekLen)
TypeTexts == SeqsOf({"L", "+"}, 0..MaxTypeLen) \cup {<<"l">>}
GapTexts == {<<" ">>, <<>>}
StaffTexts == {<<>>, Dr_Smith \o <<" ">>, <<"A", "(", "B">>}
LocationTexts == {LR1, <<>>}
TailTexts == {<<")">>, <<>>, <<")", "\n">>}

Summaries ==
  {part \o paper \o <<"/">> \o name \o <<"[">> \o week \o <<"]">> \o type \o gap
     \o staff \o <<"(">> \o location \o tail :
     part \in PartTexts, paper \in PaperTexts, name \in NameTexts,
     week \in WeekTexts, type \in TypeTexts, gap \in GapTexts,
     staff \in StaffTexts, location \in LocationTexts, tail \in TailTexts}

\* A datetime of the feed.
Datetime(date, time, utcoffset) == [date |-> date, time |-> time, utcoffset |-> utcoffset]

\* A record with all four properties, and the same record without some.
IcalEvent(summary, dtstart, dtend, uid) ==
  [SUMMARY |-> summary, DTSTART |-> dtstart, DTEND |-> dtend, UID |-> uid]
Without(ical_event, names) ==
  [n \in (DOMAIN ical_event) \ names |-> ical_event[n]]

Scenario1 ==
  <<"1">> \o <<"C", "W">> \o <<"/">> \o Example_Lecture \o <<"[", "3", "]">> \o <<"L">>
    \o <<" ">> \o Dr_Smith \o <<" ">> \o <<"(">> \o LR1 \o <<")">>
TwoLetterType ==
  <<"1", "C", "W", "/", "X", "[", "3", "]", "L", "L", " ", "A", "(", "B", ")">>

\* Summaries with a digit that is not ASCII as the part and as the week.
DigitSummaries ==
  { <<ArabicIndicThree, "C", "W", "/", "X", "[", "3", "]", "L", " ", "A", "(", "B", ")">>,
    <<"1", "C", "W", "/", "X", "[", ArabicIndicThree, "]", "L", " ", "A", "(", "B", ")">>,
    <<"1", ArabicIndicThree, "/", "X", "[", "3", "]", "L", " ", "A", "(", "B", ")">> }

Properties == {"SUMMARY", "DTSTART", "DTEND", "UID"}
\* Datetimes of the feed: two of a winter day (15 January), two late on a
\* summer day (1 July), one of a zone eight hours ahead of UTC, and the
\* instant at which summer time starts.
Winter == 15
Summer == 183
FeedDatetimes ==
  { Datetime(Winter, HHMM(9, 0), 0), Datetime(Winter, HHMM(10, 0), 0),
    Datetime(Summer, HHMM(22, 0), 0), Datetime(Summer, HHMM(23, 0), 0),
    Datetime(Summer, HHMM(7, 0), HHMM(8, 0)), Datetime(91, HHMM(1, 0), 0) }
UidAt(i) == <<"u", AsciiLow[16 + i]>>

\* The records from_ical_event is called on: every summary with all four
\* properties, and two summaries with every choice of properties and times.
ParseInputs ==
  {IcalEvent(s, Datetime(Winter, HHMM(9, 0), 0), Datetime(Winter, HHMM(10, 0), 0), UidAt(1)) :
     s \in Summaries \cup DigitSummaries}
  \cup {Without(IcalEvent(s, dtstart, dtend, UidAt(1)), missing) :
          s \in {Scenario1, TwoLetterType}, dtstart \in FeedDatetimes,
          dtend \in FeedDatetimes, missing \in SUBSET Properties}

\* Substitution tables: any of three sections, each with any of the three
\* categories, each category mapping one raw value to a display value that
\* tells the section it came from.
Scopes == {<<"1">>, <<"I", "A">>, ALL}
Categories == {"parts", "papers", "event_types"}
RawOf(value_type) ==
  CASE value_type = "parts" -> <<"1">>
    [] value_type = "papers" -> <<"C", "W">>
    [] value_type = "event_types" -> <<"L">>
GlobalDisplay(value_type) ==
  CASE value_type = "parts" -> <<"I", "A">>
    [] value_type = "papers" -> <<"C", "o", "u", "r", "s", "e">>
    [] value_type = "event_types" -> <<"l", "e", "c">>
Display(section, value_type) ==
  IF section = ALL THEN GlobalDisplay(value_type)
  ELSE GlobalDisplay(value_type) \o <<" ">> \o section
Tables ==
  UNION {
    {[section \in present |->
        [value_type \in cats[section] |->
           (RawOf(value_type) :> Display(section, value_type))]] :
       cats \in [present -> SUBSET Categories]} :
    present \in SUBSET Scopes}
Substitutors == {NullSubstitutor} \cup {Substitutor(t) : t \in Tables}

\* Events as from_ical_event returns them.
FromUtc(date, time) == astimezone(Datetime(date, time, 0))
RawEvents ==
  {EngineeringEvent(part, paper, Example_Lecture, type, Dr_Smith \o <<" ">>, LR1,
                    FromUtc(Winter, HHMM(9, 0)), FromUtc(Winter, HHMM(10, 0)), UidAt(1)) :
     part \in {<<"1">>, <<"2">>},
     paper \in {<<"C", "W">>, <<"P", "1">>},
     type \in {<<"L">>, <<"C">>}}

\* Events build_timetable_xml is called on: two parts, papers and series
\* names that concatenate alike, a series with two start times, and one event
\* that ends on the day after it starts.  The uid tells the place in the feed.
Series == {<< <<"1">>, <<"C">>, <<"W", "X">> >>,
           << <<"1">>, <<"C", "W">>, <<"X">> >>,
           << <<"1">>, <<"C", "W">>, <<"W", "X">> >>,
           << <<"2">>, <<"C">>, <<"X">> >>}
Slots ==
  {[series |-> s, start |-> FromUtc(Winter, HHMM(9, 0)),
     end |-> FromUtc(Winter, HHMM(11, 0))] : s \in Series}
  \cup {[series |-> << <<"1">>, <<"C">>, <<"W", "X">> >>,
         start |-> FromUtc(Winter, HHMM(10, 0)), end |-> FromUtc(Winter, HHMM(11, 0))],
        [series |-> << <<"2">>, <<"C">>, <<"X">> >>,
         start |-> FromUtc(Summer, HHMM(22, 0)), end |-> FromUtc(Summer, HHMM(23, 0))]}
EventAt(slot, i) ==
  EngineeringEvent(slot.series[1], slot.series[2], slot.series[3], <<"L">>,
                   <<"S">>, <<"R">>, slot.start, slot.end, UidAt(i))
EventLists ==
  {[i \in 1..Len(slots) |-> EventAt(slots[i], i)] : slots \in SeqsOf(Slots, 0..MaxEvents)}

(***************************************************************************)
(* Calls of single functions                                               *)
(***************************************************************************)
InitParse ==
  /\ MainIdle
  /\ ret = Pending
  /\ \E ical_event \in ParseInputs :
       call = [fn |-> "from_ical_event", ical_event |-> ical_event]

CallFromIcalEvent ==
  /\ call.fn = "from_ical_event"
  /\ ret = Pending
  /\ ret' = from_ical_event(call.ical_event)
  /\ UNCHANGED <<call, mainVars>>

NextParse == CallFromIcalEvent

SpecParse == InitParse /\ [][NextParse]_vars

InitSubst ==
  /\ MainIdle
  /\ ret = Pending
  /\ \E s \in Substitutors :
       \/ \E section \in Scopes \cup {<<"2">>},
             value_type \in Categories \cup {"weeks"},
             value \in {RawOf(c) : c \in Categories} :
            call = [fn |-> "lookup", substitutor |-> s, section |-> section,
                    value_type |-> value_type, value |-> value]
       \/ \E event \in RawEvents :
            call = [fn |-> "with_substitutions", self |-> event, substitutor |-> s]

CallLookup ==
  /\ call.fn = "lookup"
  /\ ret = Pending
  /\ ret' = Return(lookup(call.substitutor, call.section, call.value_type, call.value))
  /\ UNCHANGED <<call, mainVars>>

CallWithSubstitutions ==
  /\ call.fn = "with_substitutions"
  /\ ret = Pending
  /\ ret' = Return(with_substitutions(call.self, call.substitutor))
  /\ UNCHANGED <<call, mainVars>>

NextSubst == CallLookup \/ CallWithSubstitutions

SpecSubst == InitSubst /\ [][NextSubst]_vars

InitBuild ==
  /\ MainIdle
  /\ ret = Pending
  /\ \E evs \in EventLists, tripos \in {engineering, engineering \o <<"1">>} :
       call = [fn |-> "build_timetable_xml", tripos_name |-> tripos, events |-> evs]

CallBuildTimetableXml ==
  /\ call.fn = "build_timetable_xml"
  /\ ret = Pending
  /\ ret' = build_timetable_xml(call.tripos_name, call.events)
  /\ UNCHANGED <<call, mainVars>>

NextBuild == CallBuildTimetableXml

SpecBuild == InitBuild /\ [][NextBuild]_vars

(***************************************************************************)
(* main                                                                    *)
(***************************************************************************)

\* The records of the feeds main reads.
Summary_L == <<"1", "C", "W", "/", "X", "[", "3", "]", "L", " ", "A", "(", "B", ")">>
Summary_C == <<"1", "P", "1", "/", "Y", "[", "3", "]", "C", " ", "A", "(", "B", ")">>
Records ==
  { IcalEvent(Summary_L, Datetime(Winter, HHMM(9, 0), 0),
              Datetime(Winter, HHMM(10, 0), 0), UidAt(1)),
    IcalEvent(Summary_C, Datetime(Winter, HHMM(10, 0), 0),
              Datetime(Winter, HHMM(11, 0), 0), UidAt(2)),
    IcalEvent(Summary_L, Datetime(Summer, HHMM(22, 0), 0),
              Datetime(Summer, HHMM(23, 0), 0), UidAt(3)),
    IcalEvent(TwoLetterType, Datetime(Winter, HHMM(9, 0), 0),
              Datetime(Winter, HHMM(10, 0), 0), UidAt(4)) }

\* The substitution table of the usage text, cut down to these records.
UsageTable ==
  (ALL :> ("parts" :> (<<"1">> :> <<"I", "A">>)
           @@ "event_types" :> (<<"C">> :> <<"c", "l", "a", "s", "s">>)))
  @@ (<<"1">> :> ("papers" :> (<<"P", "1">> :> <<"P", "a", "p", "e", "r", " ", "1">>)))

\* Exclusion rule sets: none, the empty rule, a rule on the raw type, a rule
\* on substituted values (that of the usage text, with the part added), and
\* two rules of which one is on a name events do not have.
RuleSets ==
  { <<>>,
    << <<>> >>,
    << ("event_type" :> PyText(<<"C">>)) >>,
    << ("event_type" :> PyText(<<"c", "l", "a", "s", "s">>)
        @@ "paper" :> PyText(<<"P", "a", "p", "e", "r", " ", "1">>)
        @@ "part" :> PyText(<<"I", "A">>)) >>,
    << ("week" :> PyText(<<"3">>)), ("part" :> PyText(<<"1">>)) >> }

\* The files the options -s and -e may name: one that is not JSON, an array,
\* an object without the key, and well-formed ones; a substitution file may
\* also hold an array where the table should be.
BrokenJson ==
  [notjson |-> "{",
   error |-> "Expecting property name enclosed in double quotes: line 1 column 2 (char 1)"]
SubstitutionFiles ==
  { BrokenJson,
    PyList(<<>>),
    PyDict(<<>>),
    PyDict("substitutions" :> PyList(<<>>)),
    PyDict("substitutions" :> PyDict(UsageTable)) }
ExclusionFiles ==
  { BrokenJson, PyList(<<>>), PyDict(<<>>) }
  \cup {PyDict("exclusions" :> PyList(rules)) : rules \in RuleSets}

\* What docopt returns: the options, each None when not given, and at least
\* one file name.
ArgLists ==
  { ("-t" :> t @@ "-s" :> s @@ "-e" :> e @@ "<ical_file>" :> [f \in 1..n |-> <<"f", AsciiLow[16 + f]>>]) :
      t \in {PyNone, PyText(<<"e", "n", "g">>)},
      s \in {PyNone, PyText(<<"s", ".", "j", "s", "o", "n">>)},
      e \in {PyNone, PyText(<<"e", ".", "j", "s", "o", "n">>)},
      n \in 1..MaxFiles }

\* The numbers of records the file about to be opened may hold: MaxRecords
\* in all, and only the first file may have none.
RECURSIVE Sum(_)
Sum(sizes) == IF sizes = <<>> THEN 0 ELSE Sum(SubSeq(sizes, 1, Len(sizes) - 1)) + sizes[Len(sizes)]
FileSizes ==
  (IF file_no = 0 THEN 0 ELSE 1)
  ..(MaxRecords - Sum([f \in 1..Len(ical_files) |-> Len(ical_files[f])])
       - (Len(args["<ical_file>"]) - file_no - 1))

\* main has the arguments and the tripos name, and is about to read the
\* substitution file.
Init ==
  /\ args \in ArgLists
  /\ call = NoCall
  /\ ret = Pending
  /\ tripos_name = main_tripos_name(args["-t"])
  /\ substitutor = Nothing
  /\ excludor = Nothing
  /\ ical_files = <<>>
  /\ pc = "substitutions"
  /\ file_no = 0
  /\ rec_no = 0
  /\ file_events = <<>>
  /\ event_no = 0
  /\ events = <<>>
  /\ xml = Nothing
  /\ stdout = Nothing
  /\ raised = Nothing

\* main: no substitution file is given.
CanNoSubstitutions == pc = "substitutions" /\ ~Truthy(args["-s"])
NoSubstitutions ==
  /\ CanNoSubstitutions
  /\ substitutor' = NullSubstitutor
  /\ pc' = "exclusions"
  /\ UNCHANGED <<call, ret, args, tripos_name, excludor, ical_files,
                 file_no, rec_no, file_events, event_no, events, xml, stdout, raised>>

\* main: Substitutor.from_json_file returns the substitutor.
CanLoadSubstitutions == pc = "substitutions" /\ Truthy(args["-s"])
LoadSubstitutions ==
  /\ CanLoadSubstitutions
  /\ \E f \in SubstitutionFiles :
       /\ ~Substitutor_from_json_file(f).raised
       /\ substitutor' = Substitutor_from_json_file(f).value
  /\ pc' = "exclusions"
  /\ UNCHANGED <<call, ret, args, tripos_name, excludor, ical_files,
                 file_no, rec_no, file_events, event_no, events, xml, stdout, raised>>

\* main: Substitutor.from_json_file raises, which ends the run.
SubstitutionsRaise ==
  /\ CanLoadSubstitutions
  /\ \E f \in SubstitutionFiles :
       /\ Substitutor_from_json_file(f).raised
       /\ raised' = Substitutor_from_json_file(f)
  /\ pc' = "raised"
  /\ UNCHANGED <<call, ret, args, tripos_name, substitutor, excludor, ical_files,
                 file_no, rec_no, file_events, event_no, events, xml, stdout>>

\* main: no exclusion file is given.
CanNoExclusions == pc = "exclusions" /\ ~Truthy(args["-e"])
NoExclusions ==
  /\ CanNoExclusions
  /\ excludor' = NullExcludor
  /\ pc' = "open"
  /\ UNCHANGED <<call, ret, args, tripos_name, substitutor, ical_files,
                 file_no, rec_no, file_events, event_no, events, xml, stdout, raised>>

\* main: Excludor.from_json_file returns the excludor.
CanLoadExclusions == pc = "exclusions" /\ Truthy(args["-e"])
LoadExclusions ==
  /\ CanLoadExclusions
  /\ \E f \in ExclusionFiles :
       /\ ~Excludor_from_json_file(f).raised
       /\ excludor' = Excludor_from_json_file(f).value
  /\ pc' = "open"
  /\ UNCHANGED <<call, ret, args, tripos_name, substitutor, ical_files,
                 file_no, rec_no, file_events, event_no, events, xml, stdout, raised>>

\* main: Excludor.from_json_file raises, which ends the run.
ExclusionsRaise ==
  /\ CanLoadExclusions
  /\ \E f \in ExclusionFiles :
       /\ Excludor_from_json_file(f).raised
       /\ raised' = Excludor_from_json_file(f)
  /\ pc' = "raised"
  /\ UNCHANGED <<call, ret, args, tripos_name, substitutor, excludor, ical_files,
                 file_no, rec_no, file_events, event_no, events, xml, stdout>>

\* parse_engineering_ical_file: the generator of main, driven by sorted(),
\* opens the next file and reads its records.
OpenFile ==
  /\ pc = "open"
  /\ \E records \in SeqsOf(Records, FileSizes) :
       ical_files' = Append(ical_files, records)
  /\ file_no' = file_no + 1
  /\ rec_no' = 1
  /\ file_events' = <<>>
  /\ event_no' = 0
  /\ pc' = "parse"
  /\ UNCHANGED <<call, ret, args, tripos_name, substitutor, excludor,
                 events, xml, stdout, raised>>

\* What parse_engineering_event gives for the record being parsed.
ParsedRecord == parse_engineering_event(ical_files[file_no][rec_no], substitutor)

\* parse_engineering_ical_string has a record of the file left to parse.
CanParse == pc = "parse" /\ rec_no <= Len(ical_files[file_no])

\* parse_engineering_ical_string: the next record of the file becomes an event.
ParseEvent ==
  /\ CanParse
  /\ \E r \in {ParsedRecord} :
       ~r.raised /\ file_events' = Append(file_events, r.value)
  /\ rec_no' = rec_no + 1
  /\ UNCHANGED <<call, ret, args, tripos_name, substitutor, excludor, ical_files, pc,
                 file_no, event_no, events, xml, stdout, raised>>

\* parse_engineering_ical_string: the next record raises, which ends the run.
ParseRaises ==
  /\ CanParse
  /\ \E r \in {ParsedRecord} : r.raised /\ raised' = r
  /\ pc' = "raised"
  /\ UNCHANGED <<call, ret, args, tripos_name, substitutor, excludor, ical_files,
                 file_no, rec_no, file_events, event_no, events, xml, stdout>>

\* parse_engineering_ical_file returns the list of the file's events.
CanFileParsed == pc = "parse" /\ rec_no > Len(ical_files[file_no])
FileParsed ==
  /\ CanFileParsed
  /\ pc' = "filter"
  /\ event_no' = 1
  /\ UNCHANGED <<call, ret, args, tripos_name, substitutor, excludor, ical_files,
                 file_no, rec_no, file_events, events, xml, stdout, raised>>

\* The generator of main yields an event the excludor does not exclude.
CanKeepEvent ==
  /\ pc = "filter"
  /\ event_no <= Len(file_events)
  /\ ~is_excluded(excludor, file_events[event_no])
KeepEvent ==
  /\ CanKeepEvent
  /\ events' = Append(events, file_events[event_no])
  /\ event_no' = event_no + 1
  /\ UNCHANGED <<call, ret, args, tripos_name, substitutor, excludor, ical_files, pc,
                 file_no, rec_no, file_events, xml, stdout, raised>>

\* The generator of main skips an excluded event.
CanDropEvent ==
  /\ pc = "filter"
  /\ event_no <= Len(file_events)
  /\ is_excluded(excludor, file_events[event_no])
DropEvent ==
  /\ CanDropEvent
  /\ event_no' = event_no + 1
  /\ UNCHANGED <<call, ret, args, tripos_name, substitutor, excludor, ical_files, pc,
                 file_no, rec_no, file_events, events, xml, stdout, raised>>

\* The generator of main goes on to the next file.
CanNextFile ==
  pc = "filter" /\ event_no > Len(file_events) /\ file_no < Len(args["<ical_file>"])
NextFile ==
  /\ CanNextFile
  /\ pc' = "open"
  /\ UNCHANGED <<call, ret, args, tripos_name, substitutor, excludor, ical_files,
                 file_no, rec_no, file_events, event_no, events, xml, stdout, raised>>

\* The generator of main is exhausted: sorted() has all the events.
CanAllRead ==
  pc = "filter" /\ event_no > Len(file_events) /\ file_no = Len(args["<ical_file>"])
AllRead ==
  /\ CanAllRead
  /\ pc' = "build"
  /\ UNCHANGED <<call, ret, args, tripos_name, substitutor, excludor, ical_files,
                 file_no, rec_no, file_events, event_no, events, xml, stdout, raised>>

\* main calls build_timetable_xml on the sorted events.
CanBuild == pc = "build"

\* build_timetable_xml returns the tree.
BuildXml ==
  /\ CanBuild
  /\ \E r \in {build_timetable_xml(tripos_name, events)} :
       ~r.raised /\ xml' = r.value
  /\ pc' = "write"
  /\ UNCHANGED <<call, ret, args, tripos_name, substitutor, excludor, ical_files,
                 file_no, rec_no, file_events, event_no, events, stdout, raised>>

\* build_timetable_xml raises, which ends the run.
BuildRaises ==
  /\ CanBuild
  /\ \E r \in {build_timetable_xml(tripos_name, events)} : r.raised /\ raised' = r
  /\ pc' = "raised"
  /\ UNCHANGED <<call, ret, args, tripos_name, substitutor, excludor, ical_files,
                 file_no, rec_no, file_events, event_no, events, xml, stdout>>

\* The XML is written to stdout.
WriteXml ==
  /\ pc = "write"
  /\ stdout' = xml
  /\ pc' = "done"
  /\ UNCHANGED <<call, ret, args, tripos_name, substitutor, excludor, ical_files,
                 file_no, rec_no, file_events, event_no, events, xml, raised>>

\* Some step of main can be taken: a call that is made either returns or
\* raises.
CanStep ==
  \/ CanNoSubstitutions \/ CanLoadSubstitutions
  \/ CanNoExclusions \/ CanLoadExclusions
  \/ pc = "open"
  \/ CanParse \/ CanFileParsed
  \/ CanKeepEvent \/ CanDropEvent \/ CanNextFile \/ CanAllRead
  \/ CanBuild
  \/ pc = "write"

Next ==
  \/ NoSubstitutions
  \/ LoadSubstitutions
  \/ SubstitutionsRaise
  \/ NoExclusions
  \/ LoadExclusions
  \/ ExclusionsRaise
  \/ OpenFile
  \/ ParseEvent
  \/ ParseRaises
  \/ FileParsed
  \/ KeepEvent
  \/ DropEvent
  \/ NextFile
  \/ AllRead
  \/ BuildXml
  \/ BuildRaises
  \/ WriteXml

Spec == Init /\ [][Next]_vars

(***************************************************************************)
(* The summary grammar of the specification, read in one pass: the part    *)
(* digit, the paper code up to the first "/", the series name up to the    *)
(* first "[", the week number up to the first "]", the type code up to the *)
(* first space, the staff name up to the first "(", the location up to the *)
(* ")" that ends the text.                                                 *)
(***************************************************************************)
GrammarTypeChar ==
  {"A", "B", "C", "D", "E", "F", "G", "H", "I", "J", "K", "L", "M", "N", "O",
   "P", "Q", "R", "S", "T", "U", "V", "W", "X", "Y", "Z", "+"}

GrammarDigit == {"0", "1", "2", "3", "4", "5", "6", "7", "8", "9"}

FirstAt(s, ch, from) ==
  IF \E i \in from..Len(s) : s[i] = ch
  THEN CHOOSE i \in from..Len(s) : s[i] = ch /\ \A j \in from..(i - 1) : s[j] # ch
  ELSE 0

Scan5(s, slash, open, close, gap) ==
  [slash |-> slash, open |-> open, close |-> close, gap |-> gap,
   paren |-> IF gap = 0 THEN 0 ELSE FirstAt(s, "(", gap + 1)]
Scan4(s, slash, open, close) ==
  Scan5(s, slash, open, close, IF close = 0 THEN 0 ELSE FirstAt(s, " ", close + 1))
Scan3(s, slash, open) ==
  Scan4(s, slash, open, IF open = 0 THEN 0 ELSE FirstAt(s, "]", open + 1))
Scan2(s, slash) ==
  Scan3(s, slash, IF slash = 0 THEN 0 ELSE FirstAt(s, "[", slash + 1))
GrammarScan(s) == Scan2(s, FirstAt(s, "/", 1))

\* The text between two places holds none of the characters in without.
Free(s, from, to, without) == \A j \in from..to : s[j] \notin without

\* The scan k reads s by the grammar, with a type code of a length in typeLens.
\* No field holds a line feed, a "[" or a "(", so that s reads in one way only.
ScanInGrammar(s, k, typeLens) ==
  /\ k.slash > 0 /\ k.open > 0 /\ k.close > 0 /\ k.gap > 0 /\ k.paren > 0
  /\ s[1] \in GrammarDigit
  /\ k.slash >= 3
  /\ \A j \in 2..(k.slash - 1) : s[j] \in PaperChar
  /\ k.open > k.slash + 1
  /\ Free(s, k.slash + 1, k.open - 1, {"\n"})
  /\ k.close > k.open + 1
  /\ \A j \in (k.open + 1)..(k.close - 1) : s[j] \in GrammarDigit
  /\ (k.gap - k.close - 1) \in typeLens
  /\ \A j \in (k.close + 1)..(k.gap - 1) : s[j] \in GrammarTypeChar
  /\ Free(s, k.gap + 1, k.paren - 1, {"\n", "["})
  /\ Len(s) > k.paren
  /\ s[Len(s)] = ")"
  /\ Free(s, k.paren + 1, Len(s) - 1, {"\n", "[", "("})
InGrammar(s, typeLens) == ScanInGrammar(s, GrammarScan(s), typeLens)

\* The fields the grammar gives a summary it reads.
ScanFields(s, k) ==
  [part |-> SubSeq(s, 1, 1),
   paper |-> SubSeq(s, 2, k.slash - 1),
   name |-> SubSeq(s, k.slash + 1, k.open - 1),
   event_type |-> SubSeq(s, k.close + 1, k.gap - 1),
   staff_name |-> SubSeq(s, k.gap + 1, k.paren - 1),
   location |-> SubSeq(s, k.paren + 1, Len(s) - 1)]
GrammarFields(s) == ScanFields(s, GrammarScan(s))

\* from_ical_event was called on a record and has returned or raised.
Parsed == call.fn = "from_ical_event" /\ ret # Pending
HasSummary == "SUMMARY" \in DOMAIN call.ical_event
Complete == Properties \subseteq DOMAIN call.ical_event
Malformed == ret.raised /\ ret.msg = "SUMMARY did not match expected format"

\* The statement of C3 for type codes of the lengths in typeLens.
AcceptsGrammar(typeLens) ==
  Parsed /\ HasSummary =>
    /\ Complete /\ InGrammar(call.ical_event.SUMMARY, typeLens) =>
         /\ ~ret.raised
         /\ ret.value.event_type = GrammarFields(call.ical_event.SUMMARY).event_type
    /\ Malformed => ~InGrammar(call.ical_event.SUMMARY, typeLens)

\* C3 as stated: from_ical_event accepts every summary of the grammar whose
\* type code is one or more of A-Z and "+", returns the whole type code as
\* event_type, and raises the malformed-summary error for no such summary.
C3_AsStated == AcceptsGrammar(1..MaxTypeLen)

\* C3 amended: from_ical_event accepts every summary of the grammar whose type
\* code is exactly one of A-Z and "+", returns that character as event_type,
\* and raises the malformed-summary error for no such summary.
C3_OneCharacterType == AcceptsGrammar({1})

C3_Witness ==
  /\ Parsed /\ HasSummary /\ Complete
  /\ InGrammar(call.ical_event.SUMMARY, {1})
  /\ ~ret.raised
  /\ ret.value.event_type = <<"+">>

\* The fields of the returned event are the fields the grammar reads.
FieldsAsGrammar ==
  Parsed /\ HasSummary /\ Complete /\ InGrammar(call.ical_event.SUMMARY, {1}) =>
    /\ ~ret.raised
    /\ \A f \in {"part", "paper", "name", "event_type", "staff_name", "location"} :
         ret.value[f] = GrammarFields(call.ical_event.SUMMARY)[f]

\* The event of scenario 1, with the given staff name.
Scenario1Fields(staff_name) ==
  Parsed /\ HasSummary /\ Complete /\ call.ical_event.SUMMARY = Scenario1 =>
    /\ ~ret.raised
    /\ ret.value.part = <<"1">>
    /\ ret.value.paper = <<"C", "W">>
    /\ ret.value.name = Example_Lecture
    /\ ret.value.event_type = <<"L">>
    /\ ret.value.staff_name = staff_name
    /\ ret.value.location = LR1

\* C4 as stated: the summary of scenario 1 parses to part "1", paper "CW",
\* name "Example Lecture", event_type "L", staff_name "Dr Smith" and location
\* "LR1", and every field of a summary of the grammar is the text the grammar
\* gives that field.
C4_AsStated == Scenario1Fields(Dr_Smith) /\ FieldsAsGrammar

\* C4 amended: the summary of scenario 1 parses to staff_name "Dr Smith "
\* (the space before the bracket is part of the staff name) and otherwise as
\* stated, and every field of a summary of the grammar is the text the grammar
\* gives that field.
C4_StaffNameKeepsSpace == Scenario1Fields(Dr_Smith \o <<" ">>) /\ FieldsAsGrammar

C4_Witness ==
  /\ Parsed /\ HasSummary /\ Complete
  /\ call.ical_event.SUMMARY = Scenario1
  /\ ~ret.raised
  /\ ret.value.staff_name = Dr_Smith \o <<" ">>

(***************************************************************************)
(* Substitution                                                            *)
(***************************************************************************)

\* The table t maps (value_type, value) in the given section.
Maps(t, section, value_type, value) ==
  /\ section \in DOMAIN t
  /\ value_type \in DOMAIN t[section]
  /\ value \in DOMAIN t[section][value_type]

\* The two-level lookup: the section, else the global section, else the value.
TwoLevel(s, section, value_type, value) ==
  IF s.cls = "NullSubstitutor" THEN value
  ELSE IF Maps(s.substitutions, section, value_type, value)
       THEN s.substitutions[section][value_type][value]
  ELSE IF Maps(s.substitutions, ALL, value_type, value)
       THEN s.substitutions[ALL][value_type][value]
  ELSE value

LookedUp == call.fn = "lookup" /\ ret # Pending

\* C5: lookup(scope, category, v) returns the mapping of the scope section if
\* it has one (also when the global section maps v differently), otherwise the
\* mapping of the global section if it has one, otherwise v; it never fails.
C5_TwoLevelLookup ==
  LookedUp =>
    /\ ~ret.raised
    /\ ret.value = TwoLevel(call.substitutor, call.section, call.value_type, call.value)

C5_Witness ==
  /\ LookedUp
  /\ call.substitutor.cls = "Substitutor"
  /\ call.section # ALL
  /\ Maps(call.substitutor.substitutions, call.section, call.value_type, call.value)
  /\ Maps(call.substitutor.substitutions, ALL, call.value_type, call.value)
  /\ ret.value = Display(call.section, call.value_type)
  /\ ret.value # Display(ALL, call.value_type)

Substituted == call.fn = "with_substitutions" /\ ret # Pending

\* The table of scenario 2.
Scenario2Table == (ALL :> ("parts" :> (<<"1">> :> <<"I", "A">>)))

\* C6: with_substitutions resolves part, paper and event_type each by a lookup
\* in the scope of the part the event had before substitution, and leaves
\* name, staff_name, location, start, end and uid as they were; scenario 2
\* gives part "IA" and leaves paper "CW" and event_type "L".
C6_ScopeIsOriginalPart ==
  Substituted =>
    /\ ret.value.part =
         TwoLevel(call.substitutor, call.self.part, "parts", call.self.part)
    /\ ret.value.paper =
         TwoLevel(call.substitutor, call.self.part, "papers", call.self.paper)
    /\ ret.value.event_type =
         TwoLevel(call.substitutor, call.self.part, "event_types", call.self.event_type)
    /\ \A f \in {"name", "staff_name", "location", "start", "end", "uid"} :
         ret.value[f] = call.self[f]
    /\ ( /\ call.substitutor = Substitutor(Scenario2Table)
         /\ call.self.part = <<"1">>
         /\ call.self.paper = <<"C", "W">>
         /\ call.self.event_type = <<"L">>
         => /\ ret.value.part = <<"I", "A">>
            /\ ret.value.paper = <<"C", "W">>
            /\ ret.value.event_type = <<"L">> )

\* The part is renamed to "IA", and the paper is resolved by the section of
\* the part "1", not by the section of "IA".
C6_Witness ==
  /\ Substituted
  /\ call.substitutor.cls = "Substitutor"
  /\ call.self.part = <<"1">>
  /\ call.self.paper = <<"C", "W">>
  /\ Maps(call.substitutor.substitutions, <<"1">>, "papers", <<"C", "W">>)
  /\ Maps(call.substitutor.substitutions, <<"I", "A">>, "papers", <<"C", "W">>)
  /\ ret.value.part = <<"I", "A">>
  /\ ret.value.paper = Display(<<"1">>, "papers")

(***************************************************************************)
(* The tree                                                                *)
(***************************************************************************)
Called == call.fn = "build_timetable_xml" /\ ret # Pending
Built == Called /\ ~ret.raised

\* (part, paper) < (part, paper) as tuples of text.
PairLt(part1, paper1, part2, paper2) ==
  StrLt(part1, part2) \/ (part1 = part2 /\ StrLt(paper1, paper2))

\* The modules are those of the (part, paper) pairs of the events, in order.
ModulesOf(tripos, evs, modules) ==
  /\ \A i \in 1..Len(evs) :
       \E m \in 1..Len(modules) :
         /\ modules[m].path.part = evs[i].part
         /\ modules[m].name = evs[i].paper
         /\ \E j \in 1..Len(modules[m].series) : modules[m].series[j].name = evs[i].name
  /\ \A m \in 1..Len(modules) :
       /\ modules[m].tag = "module"
       /\ modules[m].path.tripos = tripos
       /\ \A j \in 1..Len(modules[m].series) :
            \E i \in 1..Len(evs) :
              /\ modules[m].path.part = evs[i].part
              /\ modules[m].name = evs[i].paper
              /\ modules[m].series[j].name = evs[i].name
       /\ \A j1, j2 \in 1..Len(modules[m].series) :
            j1 < j2 => StrLt(modules[m].series[j1].name, modules[m].series[j2].name)
  /\ \A m1, m2 \in 1..Len(modules) :
       m1 < m2 => PairLt(modules[m1].path.part, modules[m1].name,
                         modules[m2].path.part, modules[m2].name)

\* C8: the tree has exactly one module for each (part, paper) of the input,
\* with path (tripos, part) and name paper, in strictly ascending (part, paper)
\* order, and in each module exactly one series for each series name of that
\* (part, paper), in strictly ascending name order; nothing is split.
C8_OneModulePerPaper ==
  Built => ModulesOf(call.tripos_name, call.events, ret.value.modules)

\* A tree of two modules, one with two series, built from events that did
\* not come in the order of their (part, paper).
C8_Witness ==
  /\ Built
  /\ Len(ret.value.modules) >= 2
  /\ \E m \in 1..Len(ret.value.modules) : Len(ret.value.modules[m].series) >= 2
  /\ \E i \in 1..(Len(call.events) - 1) :
       PairLt(call.events[i + 1].part, call.events[i + 1].paper,
              call.events[i].part, call.events[i].paper)

\* Where an event must be in the tree and what its entry must hold.
Placement(part, paper, series, entry) ==
  [part |-> part, paper |-> paper, series |-> series, entry |-> entry]
PlacementOf(event) ==
  Placement(event.part, event.paper, event.name,
            [tag |-> "event", uniqueid |-> event.uid, name |-> event.name,
             location |-> event.location, lecturer |-> event.staff_name,
             date |-> strftime_date(event.start),
             start |-> strftime_time(event.start),
             end |-> strftime_time(event.end), type |-> event.event_type])

\* The places <<m, j, k>> of the entries of the tree, and what is at each.
Places(modules) ==
  {p \in (1..Len(modules)) \X (1..MaxEvents) \X (1..MaxEvents) :
     /\ p[2] <= Len(modules[p[1]].series)
     /\ p[3] <= Len(modules[p[1]].series[p[2]].events)}
At(modules, p) ==
  Placement(modules[p[1]].path.part, modules[p[1]].name,
            modules[p[1]].series[p[2]].name,
            modules[p[1]].series[p[2]].events[p[3]])

\* Entry e1 is of an event that starts later than the event of entry e2
\* (every event of the input has a uid of its own).
EventOf(evs, entry) == evs[CHOOSE i \in 1..Len(evs) : evs[i].uid = entry.uniqueid]
EntryLater(evs, e1, e2) == DatetimeLt(EventOf(evs, e2).start, EventOf(evs, e1).start)

EntriesOf(evs, modules) ==
  /\ \A i \in 1..Len(evs) :
       Cardinality({j \in 1..Len(evs) : PlacementOf(evs[j]) = PlacementOf(evs[i])})
         = Cardinality({p \in Places(modules) : At(modules, p) = PlacementOf(evs[i])})
  /\ \A p \in Places(modules) :
       \E i \in 1..Len(evs) : At(modules, p) = PlacementOf(evs[i])
  /\ \A m \in 1..Len(modules) :
       \A j \in 1..Len(modules[m].series) :
         \A k1, k2 \in 1..Len(modules[m].series[j].events) :
           k1 < k2 => ~EntryLater(evs, modules[m].series[j].events[k1],
                                  modules[m].series[j].events[k2])

\* C10: every input event is exactly one entry of the tree, in the series of
\* its name in the module of its (part, paper), carrying its uid, location,
\* staff name, type, date, start and end; the tree has no other entry; the
\* entries of a series are in non-decreasing start order.
C10_EveryEventOnce ==
  Built => EntriesOf(call.events, ret.value.modules)

\* Two events of one series, the later one first in the input, are two
\* entries of one series, the earlier one first.
C10_Witness ==
  /\ Built
  /\ \E i \in 1..(Len(call.events) - 1) :
       /\ call.events[i].part = call.events[i + 1].part
       /\ call.events[i].paper = call.events[i + 1].paper
       /\ call.events[i].name = call.events[i + 1].name
       /\ DatetimeLt(call.events[i + 1].start, call.events[i].start)
  /\ \E m \in 1..Len(ret.value.modules) :
       \E j \in 1..Len(ret.value.modules[m].series) :
         /\ Len(ret.value.modules[m].series[j].events) >= 2
         /\ EntryLater(call.events, ret.value.modules[m].series[j].events[2],
                       ret.value.modules[m].series[j].events[1])

\* The permutations of 1..n, and a list of events permuted.
PermutationsOf(n) == {p \in [1..n -> 1..n] : \A i, j \in 1..n : p[i] = p[j] => i = j}
Permuted(evs, p) == [i \in 1..Len(evs) |-> evs[p[i]]]

\* Two events have the same (part, paper, name, start).
Tied(e1, e2) ==
  /\ e1.part = e2.part
  /\ e1.paper = e2.paper
  /\ e1.name = e2.name
  /\ e1.start = e2.start

\* The permutation leaves tied events in the order they had.
KeepsTies(evs, p) ==
  \A i, j \in 1..Len(evs) : i < j /\ Tied(evs[p[i]], evs[p[j]]) => p[i] < p[j]

\* C1 as stated: assembling any permutation of a non-empty collection of
\* events gives the same tree, also when events share (part, paper, name,
\* start) and differ in uid.
C1_AsStated ==
  Called /\ call.events # <<>> =>
    \A p \in PermutationsOf(Len(call.events)) :
      build_timetable_xml(call.tripos_name, Permuted(call.events, p)) = ret

\* C1 amended: assembling a permutation of a non-empty collection of events
\* gives the same tree whenever the permutation leaves the events that share
\* (part, paper, name, start) in the order they had.
C1_OrderIndependentUpToTies ==
  Called /\ call.events # <<>> =>
    \A p \in PermutationsOf(Len(call.events)) :
      KeepsTies(call.events, p) =>
        build_timetable_xml(call.tripos_name, Permuted(call.events, p)) = ret

\* A tree built from events that were not in sorted order, two of them tied.
C1_Witness ==
  /\ Built
  /\ \E i \in 1..(Len(call.events) - 1) :
       PairLt(call.events[i + 1].part, call.events[i + 1].paper,
              call.events[i].part, call.events[i].paper)
  /\ \E i, j \in 1..Len(call.events) :
       i # j /\ Tied(call.events[i], call.events[j])

\* C2: two series of one tree with different (part, paper, name) have
\* different uniqueids, the digest being collision-free.
C2_UniqueSeriesIds ==
  Built =>
    \A m1, m2 \in 1..Len(ret.value.modules) :
      \A j1 \in 1..Len(ret.value.modules[m1].series) :
        \A j2 \in 1..Len(ret.value.modules[m2].series) :
          <<m1, j1>> # <<m2, j2>> =>
            ret.value.modules[m1].series[j1].uniqueid
              # ret.value.modules[m2].series[j2].uniqueid

(***************************************************************************)
(* The run of main                                                         *)
(***************************************************************************)
EventTextFields ==
  {"part", "paper", "name", "event_type", "staff_name", "location", "uid"}

\* Every field the rule names has, in the event, the value the rule requires.
RuleHolds(rule, event) ==
  \A field \in DOMAIN rule :
    field \in EventTextFields /\ rule[field] = [text |-> event[field]]

\* Some rule of the rule set holds of the event.
Dropped(event) ==
  /\ excludor.cls = "Excludor"
  /\ \E i \in 1..Len(excludor.exclusions) : RuleHolds(excludor.exclusions[i], event)
NotDropped(event) == ~Dropped(event)

\* The events of a file after substitution, and those of them that stay.
Resolved(file) ==
  [i \in 1..Len(file) |-> parse_engineering_event(file[i], substitutor).value]
Kept(evs) == SelectSeq(evs, NotDropped)

\* The events that stay of the first n files.
Survivors(n) == Chain([f \in 1..n |-> Kept(Resolved(ical_files[f]))])

Filtered == pc \in {"build", "write", "done"} \/ (pc = "raised" /\ raised.exc = "AssertionError")

\* C7: the events that reach build_timetable_xml are the events after
\* substitution of which no rule holds, a rule holding when every field it
\* names has exactly the required value; a rule with no field drops every
\* event, no rule set and the empty rule set drop none.
C7_DroppedIffSomeRuleHolds ==
  Filtered =>
    /\ events = Survivors(Len(ical_files))
    /\ excludor.cls = "Excludor"
         /\ (\E i \in 1..Len(excludor.exclusions) : DOMAIN excludor.exclusions[i] = {})
         => events = <<>>
    /\ excludor.cls = "NullExcludor" \/ excludor = Excludor(<<>>)
         => events = Chain([f \in 1..Len(ical_files) |-> Resolved(ical_files[f])])

\* With the usage table, the rule on the raw type "C" drops nothing, and the
\* record of type "C" reaches build_timetable_xml as type "class".
C7_Witness ==
  /\ pc = "build"
  /\ substitutor.cls = "Substitutor"
  /\ excludor = Excludor(<< ("event_type" :> PyText(<<"C">>)) >>)
  /\ Len(events) = 2
  /\ \E i \in 1..Len(events) : events[i].event_type = <<"c", "l", "a", "s", "s">>

\* Every record of every file parses into an event.
RecordParses(ical_event) == ~from_ical_event(ical_event).raised
AllParse ==
  \A f \in 1..Len(ical_files) :
    \A i \in 1..Len(ical_files[f]) : RecordParses(ical_files[f][i])

\* Every record has the three properties and a summary the pattern matches.
AllWellFormed ==
  \A f \in 1..Len(ical_files) :
    \A i \in 1..Len(ical_files[f]) :
      /\ {"SUMMARY", "DTSTART", "DTEND"} \subseteq DOMAIN ical_files[f][i]
      /\ ICAL_SUMMARY_PATTERN_match(ical_files[f][i].SUMMARY).match

OneDay(evs) == \A i \in 1..Len(evs) : evs[i].start.date = evs[i].end.date

\* The three conditions of a run that may write.
MayWriteEvents(evs) == evs # <<>> /\ OneDay(evs)
MayWrite ==
  /\ AllWellFormed
  /\ AllParse
  /\ MayWriteEvents(Survivors(Len(ical_files)))

\* C9: the document is written only if every record parsed, at least one
\* event survived exclusion and every surviving event starts and ends on one
\* date; a run for which this fails goes on until it ends with an exception,
\* and nothing is written.
C9_ErrorsAreTerminal ==
  /\ stdout # Nothing => MayWrite /\ pc = "done" /\ stdout = xml
  /\ pc \in {"write", "done"} => MayWrite
  /\ pc = "raised" => stdout = Nothing /\ raised # Nothing
  /\ pc \notin {"done", "raised"} => CanStep

\* Every record parsed and every event was excluded: the run ended with the
\* assertion of build_timetable_xml and wrote nothing.
C9_Witness ==
  /\ pc = "raised"
  /\ raised.exc = "AssertionError"
  /\ events = <<>>
  /\ \E f \in 1..Len(ical_files) : ical_files[f] # <<>>
  /\ stdout = Nothing

=============================================================================
